---- MODULE Spec2Model ----
(***************************************************************************)
(* Download-job orchestration of server.py: the job registry               *)
(* (active_downloads_info), the process-handle map (active_processes),     *)
(* one lifecycle thread per job (start_download_process), the concurrent   *)
(* request-handler threads for /api/cancel, /api/status and /api/delete,    *)
(* the external process, and the download directory.                       *)
(*                                                                         *)
(* Every access to shared state (a dict read or write, a file operation, a *)
(* call on the process handle) is one step: the handlers run on separate   *)
(* threads (ThreadingMixIn) and the code takes no lock.                     *)
(***************************************************************************)
EXTENDS Integers, Sequences, FiniteSets, TLC

\* ---------------------------------------------------------------- bounds
MaxJobs == 2        \* job ids that exist
MaxLines == 1       \* output lines a process writes
MaxCancels == 1     \* cancel requests a client makes in a run

JobIds == 1..MaxJobs
\* threads that serve /api/cancel
Handlers == 1..(MaxCancels + 1)

\* ------------------------------------------------- time strings, durations
\* A time string "HH:MM:SS" is the sequence of its colon-separated groups;
\* a group that float() rejects is -1.  "" (absent) and "inf" are the empty
\* sequence and <<-2>>.
Absent == <<>>
Inf == <<-2>>
TimeStrs == {Absent, <<0, 0, 30>>, <<0, 1, 0>>, <<0, 2, 0>>, <<0, -1, 0>>}

RECURSIVE FoldTime(_, _)
FoldTime(parts, acc) ==
    IF parts = <<>> THEN acc
    ELSE FoldTime(Tail(parts), acc * 60 + Head(parts))

parse_time_str(t) ==
    IF \E i \in DOMAIN t : t[i] < 0 THEN 0 ELSE FoldTime(t, 0)

\* total_duration_secs of lines 259-275
Duration(start_time, end_time) ==
    IF start_time # Absent \/ end_time # Absent
    THEN LET s == IF start_time = Absent THEN <<0, 0, 0>> ELSE start_time
             e == IF end_time = Absent THEN Inf ELSE end_time
         IN  IF e # Inf THEN parse_time_str(e) - parse_time_str(s) ELSE 0
    ELSE 0

\* The same percentage with no upper limit
PctTenthsNoClamp(curr, total) ==
    LET num == curr * 1000
        q == num \div total
        r == num % total
    IN  IF 2 * r > total \/ (2 * r = total /\ q % 2 = 1) THEN q + 1 ELSE q

\* f"{pct:.1f}" of min(curr/total*100, 100), in tenths of a percent
\* (round half to even on the exact quotient)
PctTenths(curr, total) ==
    LET num == curr * 1000
        q == num \div total
        r == num % total
        rounded == IF 2 * r > total \/ (2 * r = total /\ q % 2 = 1) THEN q + 1 ELSE q
    IN  IF num > 100 * 10 * total THEN 1000 ELSE rounded

\* ------------------------------------------------------------ field values
\* A field of a status record: where its text came from and what it is.
\*   src "init": the literal of lines 283-285; "std": text of output line n
\*   matched by PROGRESS_REGEX; "ff": text of output line n matched by
\*   FFMPEG_REGEX (or the literal "Processing"); percent also has
\*   "num" (a computed one-decimal percentage, n tenths), "ind"
\*   ("indeterminate") and "full" ("100%").
Val(s, k) == [src |-> s, n |-> k]

InitialRecord ==
    [status |-> "downloading", percent |-> Val("init", 0), size |-> Val("none", 0),
     speed |-> Val("init", 0), eta |-> Val("init", 0)]

\* Output lines: kind "std" ([download] progress), "ff" (frame= line that
\* FFMPEG_REGEX matches, elapsed time t), "ffbad" (frame= line it does not
\* match), "other"; n is the line's number in the job's output.
NoLine == [kind |-> "none", n |-> 0, t |-> Absent]
LineKinds == {"std", "ff", "ffbad", "other"}
ElapsedStrs == {<<0, 0, 30>>, <<0, 2, 0>>}

\* Request payloads of /api/download: data.get('start_time'), data.get('end_time')
Payloads ==
    {[start_time |-> Absent, end_time |-> Absent],
     [start_time |-> <<0, 1, 0>>, end_time |-> <<0, 2, 0>>]}

\* Files the external process may leave in the download directory: <id>.<ext>
ProcExts == {"mp4", "jpg"}

\* ------------------------------------------------------------------ state
VARIABLES
    registry,    \* active_downloads_info: job id -> status record
    handles,     \* active_processes: the job ids that have a process handle
    proc,        \* the external process of each job
    pipe,        \* the output line of each process not yet read (NoLine: none)
    emitted,     \* how many lines each process has written
    files,       \* the download directory: <<id, ext>> for the file <id>.<ext>
    meta,        \* content of <id>.json: [filename, thumbnail]
    pc,          \* position of each lifecycle thread (line of server.py)
    data,        \* the request payload of each lifecycle thread
    total,       \* total_duration_secs of each lifecycle thread
    line,        \* the output line each lifecycle thread is handling
    answered,    \* the submit requests that have been answered
    quota,       \* how many more download requests the client will make
    cpc,         \* position of each /api/cancel handler thread
    cid,         \* clip_id of each /api/cancel handler thread
    cquota,      \* how many more cancel requests the client will make
    snap,        \* the body of the /api/status response sent by the step that led
                 \* here (empty when that step was not a status request)
    snapLive,    \* the jobs whose submit request had been answered and whose
                 \* registry entry had not yet been removed when snap was taken
    hist,        \* history of each job, for stating the properties
    dpc,         \* position of the /api/delete handler thread
    did,         \* clip_id of the /api/delete handler thread
    dtry,        \* removal attempts of delete_clip that raised PermissionError
    locked       \* the files another program holds open, whose removal raises
                 \* PermissionError

jobVars == <<registry, handles, pc, data, total, line, answered, quota>>
envVars == <<proc, pipe, emitted, files, meta>>
reqVars == <<cpc, cid, cquota>>
delVars == <<dpc, did, dtry, locked>>
vars == <<registry, handles, proc, pipe, emitted, files, meta, pc, data, total,
          line, answered, quota, cpc, cid, cquota, snap, snapLive, hist,
          dpc, did, dtry, locked>>

NoPayload == [start_time |-> Absent, end_time |-> Absent]
NoMeta == [filename |-> "", thumbnail |-> FALSE]

\* hist[j]: metaWrites, cleanups, spawns count the job's metadata writes, cleanup
\* runs and process spawns, raised the exceptions caught at line 378; cancelAt
\* is "never" or the state of the job's process
\* ("unspawned", "running", "killed", "exit0", "exit1") when the first cancel
\* request wrote its status; cancelOn is the status that write replaced.
NoHist ==
    [metaWrites |-> 0, cleanups |-> 0, spawns |-> 0, raised |-> 0,
     cancelAt |-> "never", cancelOn |-> "none"]

\* The state after start-up, before a client that will make `submits` download
\* requests and `cancels` cancel requests
InitWith(submits, cancels) ==
    /\ registry = [k \in {} |-> InitialRecord]
    /\ handles = {}
    /\ proc = [j \in JobIds |-> "unspawned"]
    /\ pipe = [j \in JobIds |-> NoLine]
    /\ emitted = [j \in JobIds |-> 0]
    /\ files = {}
    /\ meta = [j \in JobIds |-> NoMeta]
    /\ pc = [j \in JobIds |-> "idle"]
    /\ data = [j \in JobIds |-> NoPayload]
    /\ total = [j \in JobIds |-> 0]
    /\ line = [j \in JobIds |-> NoLine]
    /\ answered = {}
    /\ quota = submits
    /\ cpc = [h \in Handlers |-> "idle"]
    /\ cid = [h \in Handlers |-> 0]
    /\ cquota = cancels
    /\ snap = [k \in {} |-> InitialRecord]
    /\ snapLive = {}
    /\ hist = [j \in JobIds |-> NoHist]
    /\ dpc = "idle"
    /\ did = 0
    /\ dtry = 0
    /\ locked = {}

\* A run of one job: jobs share nothing but the two maps, keyed by job id
Init == InitWith(1, MaxCancels)

Registered(j) == j \in DOMAIN registry
Status(j) == registry[j].status
SetField(reg, j, f, v) == [reg EXCEPT ![j] = [@ EXCEPT ![f] = v]]
\* A removal that removes nothing
DelKeyNone(reg, j) == reg
DelKey(reg, j) == [k \in DOMAIN reg \ {j} |-> reg[k]]

\* A step that is not a status request sends no status response
Quiet == snap' = [k \in {} |-> InitialRecord] /\ snapLive' = {}

Bump(j, f) == [hist EXCEPT ![j] = [@ EXCEPT ![f] = @ + 1]]

\* ------------------------------------------------ POST /api/download
\* line 155: the handler starts the lifecycle thread of a new job.  The thread
\* of job j is the one that will draw id j at line 237.
SubmitFrom(j, payloads) ==
    /\ pc[j] = "idle"
    /\ \A k \in JobIds : k < j => pc[k] # "idle"
    /\ quota > 0
    /\ quota' = quota - 1
    /\ \E d \in payloads : data' = [data EXCEPT ![j] = d]
    /\ pc' = [pc EXCEPT ![j] = "l237"]
    /\ Quiet
    /\ UNCHANGED <<registry, handles, total, line, answered, envVars, reqVars, hist, delVars>>

Submit(j) == SubmitFrom(j, Payloads)

\* line 156: the handler answers {"status": "started"}
SubmitRespond(j) ==
    /\ pc[j] # "idle"
    /\ j \notin answered
    /\ answered' = answered \cup {j}
    /\ Quiet
    /\ UNCHANGED <<registry, handles, pc, data, total, line, quota, envVars, reqVars, hist, delVars>>

\* ------------------------------------------------ start_download_process
\* lines 237-286: build the command, compute total_duration_secs, register
Register(j) ==
    /\ pc[j] = "l237"
    /\ total' = [total EXCEPT ![j] = Duration(data[j].start_time, data[j].end_time)]
    /\ registry' = (j :> InitialRecord) @@ registry
    /\ pc' = [pc EXCEPT ![j] = "l289"]
    /\ Quiet
    /\ UNCHANGED <<handles, data, line, answered, quota, envVars, reqVars, hist, delVars>>

\* lines 289-296: subprocess.Popen succeeds
Spawn(j) ==
    /\ pc[j] = "l289"
    /\ proc' = [proc EXCEPT ![j] = "running"]
    /\ hist' = Bump(j, "spawns")
    /\ pc' = [pc EXCEPT ![j] = "l297"]
    /\ Quiet
    /\ UNCHANGED <<registry, handles, data, total, line, answered, quota, pipe, emitted, files,
                   meta, reqVars, delVars>>

\* lines 289-296: subprocess.Popen raises (executable missing): to line 378
SpawnFails(j) ==
    /\ pc[j] = "l289"
    /\ pc' = [pc EXCEPT ![j] = "l380"]
    /\ hist' = Bump(j, "raised")
    /\ Quiet
    /\ UNCHANGED <<registry, handles, data, total, line, answered, quota, envVars, reqVars, delVars>>

\* line 297: active_processes[clip_id] = proc
StoreHandle(j) ==
    /\ pc[j] = "l297"
    /\ handles' = handles \cup {j}
    /\ pc' = [pc EXCEPT ![j] = "l301"]
    /\ Quiet
    /\ UNCHANGED <<registry, data, total, line, answered, quota, envVars, reqVars, hist, delVars>>

\* proc.kill(): nothing once the process has exited
Killed(p) == IF p = "running" THEN "killed" ELSE p

\* lines 301-303: the status is 'cancelled': proc.kill() and break
LoopCancelled(j) ==
    /\ pc[j] = "l301"
    /\ Status(j) = "cancelled"
    /\ proc' = [proc EXCEPT ![j] = Killed(@)]
    /\ pc' = [pc EXCEPT ![j] = "l343"]
    /\ Quiet
    /\ UNCHANGED <<registry, handles, data, total, line, answered, quota, pipe, emitted, files,
                   meta, reqVars, hist, delVars>>

\* line 301: the status is not 'cancelled': on to readline
LoopContinue(j) ==
    /\ pc[j] = "l301"
    /\ Status(j) # "cancelled"
    /\ pc' = [pc EXCEPT ![j] = "l305"]
    /\ Quiet
    /\ UNCHANGED <<registry, handles, data, total, line, answered, quota, envVars, reqVars, hist, delVars>>

\* Where lines 312-340 go for a line of each kind
Classify(kind) ==
    CASE kind = "std" -> "l316"
      [] kind = "ff" -> "l332"
      [] kind = "ffbad" -> "l340"
      [] OTHER -> "l301"

\* lines 305-310: readline returns a line, which is printed and classified
ReadLine(j) ==
    /\ pc[j] = "l305"
    /\ pipe[j] # NoLine
    /\ line' = [line EXCEPT ![j] = pipe[j]]
    /\ pipe' = [pipe EXCEPT ![j] = NoLine]
    /\ pc' = [pc EXCEPT ![j] = Classify(pipe[j].kind)]
    /\ Quiet
    /\ UNCHANGED <<registry, handles, data, total, answered, quota, proc, emitted, files,
                   meta, reqVars, hist, delVars>>

\* lines 305-310: handling the line raises (print of an unencodable line):
\* to line 378
LineException(j) ==
    /\ pc[j] = "l305"
    /\ pipe[j] # NoLine
    /\ pipe' = [pipe EXCEPT ![j] = NoLine]
    /\ pc' = [pc EXCEPT ![j] = "l380"]
    /\ hist' = Bump(j, "raised")
    /\ Quiet
    /\ UNCHANGED <<registry, handles, data, total, line, answered, quota, proc, emitted, files,
                   meta, reqVars, delVars>>

\* lines 305-307: readline returns '' and the process has exited: break
ReadEof(j) ==
    /\ pc[j] = "l305"
    /\ pipe[j] = NoLine
    /\ proc[j] # "running"
    /\ pc' = [pc EXCEPT ![j] = "l343"]
    /\ Quiet
    /\ UNCHANGED <<registry, handles, data, total, line, answered, quota, envVars, reqVars, hist, delVars>>

\* One assignment active_downloads_info[clip_id][f] = v at position `at`
WriteField(j, at, f, v, next) ==
    /\ pc[j] = at
    /\ registry' = SetField(registry, j, f, v)
    /\ pc' = [pc EXCEPT ![j] = next]
    /\ line' = IF next = "l301" THEN [line EXCEPT ![j] = NoLine] ELSE line
    /\ Quiet
    /\ UNCHANGED <<handles, data, total, answered, quota, envVars, reqVars, hist, delVars>>

\* lines 316-319: a standard progress line
StdPercent(j) == WriteField(j, "l316", "percent", Val("std", line[j].n), "l317")
StdSize(j) == WriteField(j, "l317", "size", Val("std", line[j].n), "l318")
StdSpeed(j) == WriteField(j, "l318", "speed", Val("std", line[j].n), "l319")
StdEta(j) == WriteField(j, "l319", "eta", Val("std", line[j].n), "l301")

\* A percentage computed whether or not the duration is known
FfPercentValueAlways(tot, time_str) ==
    Val("num", IF tot > 0 THEN PctTenths(parse_time_str(time_str), tot) ELSE 1000)

\* lines 328-334: the percentage of an ffmpeg progress line
FfPercentValue(tot, time_str) ==
    IF tot > 0 THEN Val("num", PctTenths(parse_time_str(time_str), tot))
    ELSE Val("ind", 0)

\* lines 328-338: an ffmpeg progress line
FfPercent(j) ==
    WriteField(j, "l332", "percent", FfPercentValue(total[j], line[j].t), "l336")
FfSize(j) == WriteField(j, "l336", "size", Val("ff", line[j].n), "l337")
FfSpeed(j) == WriteField(j, "l337", "speed", Val("ff", line[j].n), "l338")
FfEta(j) == WriteField(j, "l338", "eta", Val("ff", 0), "l301")

\* line 340: a frame= line that FFMPEG_REGEX does not match
FfBadPercent(j) == WriteField(j, "l340", "percent", Val("ind", 0), "l301")

\* line 343: the status is not 'cancelled': on to proc.wait()
PostLoopWait(j) ==
    /\ pc[j] = "l343"
    /\ Status(j) # "cancelled"
    /\ pc' = [pc EXCEPT ![j] = "l344"]
    /\ Quiet
    /\ UNCHANGED <<registry, handles, data, total, line, answered, quota, envVars, reqVars, hist, delVars>>

\* line 343: the status is 'cancelled': nothing more in the try block
PostLoopCancelled(j) ==
    /\ pc[j] = "l343"
    /\ Status(j) = "cancelled"
    /\ pc' = [pc EXCEPT ![j] = "l383"]
    /\ Quiet
    /\ UNCHANGED <<registry, handles, data, total, line, answered, quota, envVars, reqVars, hist, delVars>>

\* proc.wait() whose return code is not looked at
WaitIgnoringCode(j) ==
    /\ pc[j] = "l344"
    /\ proc[j] # "running"
    /\ pc' = [pc EXCEPT ![j] = "l346"]
    /\ Quiet
    /\ UNCHANGED <<registry, handles, data, total, line, answered, quota, envVars, reqVars, hist, delVars>>

\* lines 344-345, 375: proc.wait() returns; returncode 0 or not
Wait(j) ==
    /\ pc[j] = "l344"
    /\ proc[j] # "running"
    /\ pc' = [pc EXCEPT ![j] = IF proc[j] = "exit0" THEN "l346" ELSE "l376"]
    /\ Quiet
    /\ UNCHANGED <<registry, handles, data, total, line, answered, quota, envVars, reqVars, hist, delVars>>

\* Ids whose length grows with the job number
ClipIdGrowing(j) == [k \in 1..j |-> "0"]

\* line 237: the id string of job j; uuid7 strings all have the same length
ClipId(j) == <<"0", ToString(j)>>

\* The name of the file <id>.<ext>
FileName(f) == ClipId(f[1]) \o <<".", f[2]>>

StartsWith(name, prefix) ==
    /\ Len(name) >= Len(prefix)
    /\ \A i \in 1..Len(prefix) : name[i] = prefix[i]

\* line 386: glob(f"{clip_id}*"), the files whose name starts with the id
Mine(fs, j) == {f \in fs : StartsWith(FileName(f), ClipId(j))}

\* lines 346-349: the media file's name (its extension here)
FoundName(fs, j) ==
    IF <<j, "mp4">> \in fs THEN "mp4"
    ELSE IF \E f \in Mine(fs, j) : f[2] \notin {"jpg", "json"}
         THEN (CHOOSE f \in Mine(fs, j) : f[2] \notin {"jpg", "json"})[2]
         ELSE "mp4"

\* lines 346-371: find the artifacts and write <id>.json
Finalize(j) ==
    /\ pc[j] = "l346"
    /\ meta' = [meta EXCEPT ![j] = [filename |-> FoundName(files, j),
                                    thumbnail |-> <<j, "jpg">> \in files]]
    /\ files' = files \cup {<<j, "json">>}
    /\ hist' = Bump(j, "metaWrites")
    /\ pc' = [pc EXCEPT ![j] = "l373"]
    /\ Quiet
    /\ UNCHANGED <<registry, handles, data, total, line, answered, quota, proc, pipe, emitted,
                   reqVars, delVars>>

\* An assignment to the status or percent after the loop
WriteDone(j, at, f, v, next) ==
    /\ pc[j] = at
    /\ registry' = SetField(registry, j, f, v)
    /\ pc' = [pc EXCEPT ![j] = next]
    /\ Quiet
    /\ UNCHANGED <<handles, data, total, line, answered, quota, envVars, reqVars, hist, delVars>>

\* line 373
SetFinished(j) == WriteDone(j, "l373", "status", "finished", "l374")
\* line 374
SetFull(j) == WriteDone(j, "l374", "percent", Val("full", 0), "l383")
\* line 376: nonzero return code
SetErrorExit(j) == WriteDone(j, "l376", "status", "error", "l383")
\* lines 378-380: except Exception
SetErrorExc(j) == WriteDone(j, "l380", "status", "error", "l383")

\* A finally clause that leaves the handle where it is
HandlesKept(hs, j) == hs

\* del active_processes[clip_id], if it is there
HandlesWithout(hs, j) == hs \ {j}

\* line 383: if clip_id in active_processes: del active_processes[clip_id]
DelHandle(j) ==
    /\ pc[j] = "l383"
    /\ handles' = HandlesWithout(handles, j)
    /\ pc' = [pc EXCEPT ![j] = "l384"]
    /\ Quiet
    /\ UNCHANGED <<registry, data, total, line, answered, quota, envVars, reqVars, hist, delVars>>

\* A status test that leaves out 'error'
NeedsCleanupCancelledOnly(st) == st = "cancelled"

\* line 384: which statuses are cleaned up
NeedsCleanup(st) == st \in {"cancelled", "error"}

\* line 384: the status decides whether cleanup runs
DecideCleanup(j) ==
    /\ pc[j] = "l384"
    /\ pc' = [pc EXCEPT ![j] = IF NeedsCleanup(Status(j)) THEN "l385" ELSE "l389"]
    /\ Quiet
    /\ UNCHANGED <<registry, handles, data, total, line, answered, quota, envVars, reqVars, hist, delVars>>

\* lines 385-388: after a second, remove every file <id>*; a removal that
\* raises is passed over, so any of the files may stay
Cleanup(j) ==
    /\ pc[j] = "l385"
    /\ \E kept \in SUBSET Mine(files, j) :
          /\ files' = (files \ Mine(files, j)) \cup kept
          /\ meta' = IF <<j, "json">> \in kept THEN meta ELSE [meta EXCEPT ![j] = NoMeta]
    /\ hist' = Bump(j, "cleanups")
    /\ pc' = [pc EXCEPT ![j] = "l389"]
    /\ Quiet
    /\ UNCHANGED <<registry, handles, data, total, line, answered, quota, proc, pipe, emitted,
                   reqVars, delVars>>

\* line 389: time.sleep(5), the grace delay
Grace(j) ==
    /\ pc[j] = "l389"
    /\ pc' = [pc EXCEPT ![j] = "l390"]
    /\ Quiet
    /\ UNCHANGED <<registry, handles, data, total, line, answered, quota, envVars, reqVars, hist, delVars>>

\* line 390: if clip_id in active_downloads_info: del active_downloads_info[clip_id]
Remove(j) ==
    /\ pc[j] = "l390"
    /\ registry' = DelKey(registry, j)
    /\ pc' = [pc EXCEPT ![j] = "done"]
    /\ Quiet
    /\ UNCHANGED <<handles, data, total, line, answered, quota, envVars, reqVars, hist, delVars>>

\* ------------------------------------------------ the external process
\* The process writes one more line to its output
ProcEmitFrom(j, kinds, elapsed) ==
    /\ proc[j] = "running"
    /\ pipe[j] = NoLine
    /\ emitted[j] < MaxLines
    /\ \E k \in kinds :
         \E t \in (IF k = "ff" THEN elapsed ELSE {Absent}) :
            pipe' = [pipe EXCEPT ![j] = [kind |-> k, n |-> emitted[j] + 1, t |-> t]]
    /\ emitted' = [emitted EXCEPT ![j] = @ + 1]
    /\ Quiet
    /\ UNCHANGED <<jobVars, proc, files, meta, reqVars, hist, delVars>>

ProcEmit(j) == ProcEmitFrom(j, LineKinds, ElapsedStrs)

\* The process creates <id>.<ext>: the thumbnail, or its one media file
ProcWriteFrom(j, exts) ==
    /\ proc[j] = "running"
    /\ \E e \in exts :
          /\ <<j, e>> \notin files
          /\ e # "jpg" => \A f \in Mine(files, j) : f[2] = "jpg"
          /\ files' = files \cup {<<j, e>>}
    /\ Quiet
    /\ UNCHANGED <<jobVars, proc, pipe, emitted, meta, reqVars, hist, delVars>>

ProcWrite(j) == ProcWriteFrom(j, ProcExts)

\* The process exits with return code 0 or 1
ProcExit(j) ==
    /\ proc[j] = "running"
    /\ \E p \in {"exit0", "exit1"} : proc' = [proc EXCEPT ![j] = p]
    /\ Quiet
    /\ UNCHANGED <<jobVars, pipe, emitted, files, meta, reqVars, hist, delVars>>

\* ------------------------------------------------ POST /api/cancel
\* line 160: a request naming clip_id j arrives (handler threads in order); the
\* client names the id of a job it has submitted
CancelStart(h, j) ==
    /\ cpc[h] = "idle"
    /\ pc[j] # "idle"
    /\ \A g \in Handlers : g < h => cpc[g] # "idle"
    /\ cquota > 0
    /\ cquota' = cquota - 1
    /\ cpc' = [cpc EXCEPT ![h] = "c161"]
    /\ cid' = [cid EXCEPT ![h] = j]
    /\ Quiet
    /\ UNCHANGED <<jobVars, envVars, hist, delVars>>

\* line 161: if clip_id in active_downloads_info
CancelCheck(h) ==
    /\ cpc[h] = "c161"
    /\ cpc' = [cpc EXCEPT ![h] = IF Registered(cid[h]) THEN "c162" ELSE "c164"]
    /\ Quiet
    /\ UNCHANGED <<jobVars, envVars, cid, cquota, hist, delVars>>

\* The status a cancel request leaves in a record whose status is st
CancelStatus(st) == "cancelled"

\* line 162: active_downloads_info[clip_id]['status'] = 'cancelled'
CancelWrite(h) ==
    /\ cpc[h] = "c162"
    /\ Registered(cid[h])
    /\ registry' = SetField(registry, cid[h], "status", CancelStatus(Status(cid[h])))
    /\ hist' = IF hist[cid[h]].cancelAt = "never"
               THEN [hist EXCEPT ![cid[h]] = [@ EXCEPT !.cancelAt = proc[cid[h]],
                                                       !.cancelOn = Status(cid[h])]]
               ELSE hist
    /\ cpc' = [cpc EXCEPT ![h] = "c164"]
    /\ Quiet
    /\ UNCHANGED <<handles, pc, data, total, line, answered, quota, envVars, cid, cquota, delVars>>

\* line 162 when the entry was removed after line 161: KeyError, which nothing
\* catches: the handler thread ends and no response is sent
CancelKeyError(h) ==
    /\ cpc[h] = "c162"
    /\ ~Registered(cid[h])
    /\ cpc' = [cpc EXCEPT ![h] = "failed"]
    /\ Quiet
    /\ UNCHANGED <<jobVars, envVars, cid, cquota, hist, delVars>>

\* lines 164-169: if clip_id in active_processes: kill(), any exception passed
\* over; then the response {"status": "cancelled"}
CancelKill(h) ==
    /\ cpc[h] = "c164"
    /\ proc' = IF cid[h] \in handles THEN [proc EXCEPT ![cid[h]] = Killed(@)] ELSE proc
    /\ cpc' = [cpc EXCEPT ![h] = "ok"]
    /\ Quiet
    /\ UNCHANGED <<jobVars, pipe, emitted, files, meta, cid, cquota, hist, delVars>>

\* ------------------------------------------------ POST /api/delete
\* line 412: for i in range(20)
Attempts == 20

\* The media file that <id>.json names (line 407)
MediaOf(j) == <<j, meta[j].filename>>

\* line 197: a request naming clip_id j arrives
DeleteStart(j) ==
    /\ dpc = "idle"
    /\ dpc' = "d404"
    /\ did' = j
    /\ Quiet
    /\ UNCHANGED <<jobVars, envVars, reqVars, hist, dtry, locked>>

\* lines 403-410: no <id>.json: return False (line 432); else read it and see
\* whether the media file exists
DeleteLookup ==
    /\ dpc = "d404"
    /\ dpc' = IF ~(<<did, "json">> \in files) THEN "d500"
              ELSE IF MediaOf(did) \in files THEN "d414" ELSE "d423"
    /\ Quiet
    /\ UNCHANGED <<jobVars, envVars, reqVars, hist, did, dtry, locked>>

\* A loop whose failure is not looked at
AfterAttemptsNoReturn(deleted) == "d423"

\* lines 419-421: after the loop, return False unless the file was removed
AfterAttempts(deleted) == IF deleted THEN "d423" ELSE "d421"

\* lines 412-418: one os.remove(vid_path); PermissionError: sleep and go on
\* with the next i, if any
DeleteAttempt ==
    /\ dpc = "d414"
    /\ IF MediaOf(did) \in locked
       THEN /\ dtry' = dtry + 1
            /\ dpc' = IF dtry + 1 = Attempts THEN AfterAttempts(FALSE) ELSE "d414"
            /\ UNCHANGED files
       ELSE /\ files' = files \ {MediaOf(did)}
            /\ dpc' = AfterAttempts(TRUE)
            /\ UNCHANGED dtry
    /\ Quiet
    /\ UNCHANGED <<jobVars, proc, pipe, emitted, meta, reqVars, hist, did, locked>>

\* lines 420-421, 201: return False, answered with error 500
DeleteGiveUp ==
    /\ dpc = "d421"
    /\ dpc' = "d500"
    /\ Quiet
    /\ UNCHANGED <<jobVars, envVars, reqVars, hist, did, dtry, locked>>

\* lines 423-425: remove the thumbnail if there is one; a failure is passed over
DeleteThumb ==
    /\ dpc = "d423"
    /\ files' = IF <<did, "jpg">> \in locked THEN files ELSE files \ {<<did, "jpg">>}
    /\ dpc' = "d427"
    /\ Quiet
    /\ UNCHANGED <<jobVars, proc, pipe, emitted, meta, reqVars, hist, did, dtry, locked>>

\* lines 427-431, 198-201: remove <id>.json and return True; if that raises
\* return False
DeleteMeta ==
    /\ dpc = "d427"
    /\ IF <<did, "json">> \in locked
       THEN dpc' = "d500" /\ UNCHANGED <<files, meta>>
       ELSE /\ files' = files \ {<<did, "json">>}
            /\ meta' = [meta EXCEPT ![did] = NoMeta]
            /\ dpc' = "d200"
    /\ Quiet
    /\ UNCHANGED <<jobVars, proc, pipe, emitted, reqVars, hist, did, dtry, locked>>

\* Another program opens a file of the library, or closes it
Lock(f) ==
    /\ f \in files \ locked
    /\ locked' = locked \cup {f}
    /\ Quiet
    /\ UNCHANGED <<jobVars, envVars, reqVars, hist, dpc, did, dtry>>

Unlock(f) ==
    /\ f \in locked
    /\ locked' = locked \ {f}
    /\ Quiet
    /\ UNCHANGED <<jobVars, envVars, reqVars, hist, dpc, did, dtry>>

DeleteHandler == DeleteLookup \/ DeleteAttempt \/ DeleteGiveUp \/ DeleteThumb \/ DeleteMeta

\* ------------------------------------------------ GET /api/status
\* lines 121-123: list(active_downloads_info.values()), sent as the response
StatusSnapshot ==
    /\ snap' = registry
    /\ snapLive' = {j \in answered : pc[j] # "done"}
    /\ UNCHANGED <<jobVars, envVars, reqVars, hist, delVars>>

\* ------------------------------------------------ specification
Lifecycle(j) ==
    \/ Register(j) \/ Spawn(j) \/ SpawnFails(j) \/ StoreHandle(j)
    \/ LoopCancelled(j) \/ LoopContinue(j)
    \/ ReadLine(j) \/ LineException(j) \/ ReadEof(j)
    \/ StdPercent(j) \/ StdSize(j) \/ StdSpeed(j) \/ StdEta(j)
    \/ FfPercent(j) \/ FfSize(j) \/ FfSpeed(j) \/ FfEta(j) \/ FfBadPercent(j)
    \/ PostLoopWait(j) \/ PostLoopCancelled(j) \/ Wait(j)
    \/ Finalize(j) \/ SetFinished(j) \/ SetFull(j) \/ SetErrorExit(j) \/ SetErrorExc(j)
    \/ DelHandle(j) \/ DecideCleanup(j) \/ Cleanup(j) \/ Grace(j) \/ Remove(j)

Process(j) == ProcEmit(j) \/ ProcWrite(j) \/ ProcExit(j)

CancelHandler(h) ==
    \/ \E j \in JobIds : CancelStart(h, j)
    \/ CancelCheck(h) \/ CancelWrite(h) \/ CancelKeyError(h) \/ CancelKill(h)

\* Every step but the answers to download requests and to status requests,
\* which change nothing but answered and snap
CoreNext ==
    \/ \E j \in JobIds : Submit(j) \/ Lifecycle(j) \/ Process(j)
    \/ \E h \in Handlers : CancelHandler(h)

Next ==
    \/ \E j \in JobIds : Submit(j) \/ SubmitRespond(j) \/ Lifecycle(j) \/ Process(j)
    \/ \E h \in Handlers : CancelHandler(h)
    \/ StatusSnapshot

Spec == Init /\ [][Next]_vars

\* The same runs without those answers
CoreSpec == Init /\ [][CoreNext]_vars

\* Threads run whenever they can; nothing makes a process write or exit, a
\* client send a request, or an exception happen
HandlerStep(h) == CancelCheck(h) \/ CancelWrite(h) \/ CancelKeyError(h) \/ CancelKill(h)
Fairness ==
    /\ \A j \in JobIds : WF_vars(Lifecycle(j))
    /\ \A h \in Handlers : WF_vars(HandlerStep(h))
FairSpec == Spec /\ Fairness

\* The same, and every process that is not killed exits in the end
ExitingSpec ==
    /\ InitWith(1, 1)
    /\ [][CoreNext]_vars
    /\ Fairness
    /\ \A j \in JobIds : WF_vars(ProcExit(j))

\* A run of one job in which every cancel handler thread serves a request
CancelInit == InitWith(1, MaxCancels + 1)
CancelSpec == CancelInit /\ [][CoreNext]_vars

\* ------------------------------------------------ ranges and merge progress
\* Runs of one job up to the handling of its ffmpeg progress lines, for every
\* time range a client can send and every elapsed time a line can carry
RangePayloads == [start_time : TimeStrs, end_time : TimeStrs \cup {Inf}]
RangeElapsed ==
    {<<0, 0, 0>>, <<0, 0, 15>>, <<0, 0, 30>>, <<0, 0, 45>>, <<0, 1, 0>>, <<0, 1, 30>>,
     <<0, 2, 0>>, <<1, 0, 0>>, <<-1>>}

RangeNext ==
    \E j \in JobIds :
        \/ SubmitFrom(j, RangePayloads)
        \/ Register(j) \/ Spawn(j) \/ StoreHandle(j) \/ LoopContinue(j)
        \/ ProcEmitFrom(j, {"ff", "ffbad"}, RangeElapsed)
        \/ ReadLine(j)
        \/ FfPercent(j) \/ FfSize(j) \/ FfSpeed(j) \/ FfEta(j) \/ FfBadPercent(j)

RangeSpec == InitWith(1, 0) /\ [][RangeNext]_vars

\* The first id generate_uuid_v7 hands out (ids are time-ordered)
FirstId == CHOOSE j \in JobIds : \A k \in JobIds : j <= k

\* ------------------------------------------------ two jobs
\* Two jobs side by side, with one cancel request for either: requests with no
\* time range, processes that leave a media file and no thumbnail, the first
\* job's process writing standard progress lines and the second's none
PairLifecycle(j) ==
    \/ Register(j) \/ Spawn(j) \/ SpawnFails(j) \/ StoreHandle(j)
    \/ LoopCancelled(j) \/ LoopContinue(j)
    \/ ReadLine(j) \/ ReadEof(j)
    \/ StdPercent(j) \/ StdSize(j) \/ StdSpeed(j) \/ StdEta(j)
    \/ PostLoopWait(j) \/ PostLoopCancelled(j) \/ Wait(j)
    \/ Finalize(j) \/ SetFinished(j) \/ SetFull(j) \/ SetErrorExit(j) \/ SetErrorExc(j)
    \/ DelHandle(j) \/ DecideCleanup(j) \/ Cleanup(j) \/ Grace(j) \/ Remove(j)

PairNext ==
    \/ \E j \in JobIds :
          \/ SubmitFrom(j, {NoPayload})
          \/ PairLifecycle(j)
          \/ (j = FirstId /\ ProcEmitFrom(j, {"std"}, {}))
          \/ ProcWriteFrom(j, {"mp4"}) \/ ProcExit(j)
    \/ \E h \in Handlers : CancelHandler(h)

PairSpec == InitWith(2, 1) /\ [][PairNext]_vars

\* ------------------------------------------------ deleting a clip
\* The state after the first job has finished and its entry has been removed:
\* <id>.json is in the library beside whichever of the media file and the
\* thumbnail the process left
DeleteInit ==
    \E left \in SUBSET {<<FirstId, e>> : e \in ProcExts} :
        /\ registry = [k \in {} |-> InitialRecord]
        /\ handles = {}
        /\ proc = [j \in JobIds |-> IF j = FirstId THEN "exit0" ELSE "unspawned"]
        /\ pipe = [j \in JobIds |-> NoLine]
        /\ emitted = [j \in JobIds |-> 0]
        /\ files = left \cup {<<FirstId, "json">>}
        /\ meta = [j \in JobIds |->
                     IF j = FirstId
                     THEN [filename |-> FoundName(left, j), thumbnail |-> <<j, "jpg">> \in left]
                     ELSE NoMeta]
        /\ pc = [j \in JobIds |-> IF j = FirstId THEN "done" ELSE "idle"]
        /\ data = [j \in JobIds |-> NoPayload]
        /\ total = [j \in JobIds |-> 0]
        /\ line = [j \in JobIds |-> NoLine]
        /\ answered = {FirstId}
        /\ quota = 0
        /\ cpc = [h \in Handlers |-> "idle"]
        /\ cid = [h \in Handlers |-> 0]
        /\ cquota = 0
        /\ snap = [k \in {} |-> InitialRecord]
        /\ snapLive = {}
        /\ hist = [j \in JobIds |->
                     IF j = FirstId
                     THEN [NoHist EXCEPT !.metaWrites = 1, !.spawns = 1]
                     ELSE NoHist]
        /\ dpc = "idle"
        /\ did = 0
        /\ dtry = 0
        /\ locked = {}

DeleteNext ==
    \/ \E j \in JobIds : DeleteStart(j)
    \/ DeleteHandler
    \/ \E j \in JobIds : \E e \in ProcExts \cup {"json"} : Lock(<<j, e>>) \/ Unlock(<<j, e>>)

\* The handler thread runs whenever it can; nothing makes the other program
\* close a file
DeleteSpec == DeleteInit /\ [][DeleteNext]_vars /\ WF_vars(DeleteHandler)

\* ------------------------------------------------------------ properties
Terminal == {"finished", "error", "cancelled"}
HasMeta(j) == <<j, "json">> \in files
\* positions after the try block (the finally clause) and after the thread's end
InFinally == {"l383", "l384", "l385", "l389", "l390"}

\* C1: for every job exactly one of the two end-of-job actions is performed,
\* once: the metadata record is written or the id's files are removed; never
\* both, and one of them by the time the lifecycle ends.
C1_ExactlyOneEndAction ==
    \A j \in JobIds :
        /\ hist[j].metaWrites + hist[j].cleanups <= 1
        /\ pc[j] = "done" => hist[j].metaWrites + hist[j].cleanups = 1

\* C2: once a record's status is finished, error or cancelled, no step changes
\* it to another value while the record exists; a cancel request writes
\* cancelled only over downloading.
C2_TerminalOnce ==
    [][\A j \in JobIds :
          (Registered(j) /\ Registered(j)' /\ Status(j) \in Terminal)
              => Status(j)' = Status(j)]_vars

\* C3 as stated: a registry entry and a metadata record of the same id never
\* exist together; with no registry entry after the job, there is a metadata
\* record or no artifact at all.
C3_NeverBoth ==
    \A j \in JobIds :
        /\ ~(Registered(j) /\ HasMeta(j))
        /\ pc[j] = "done" => (HasMeta(j) \/ Mine(files, j) = {})

\* C3 as amended: a registry entry and a metadata record of the same id exist
\* together only from the lifecycle's metadata write to its registry removal;
\* before that write there is no metadata record, and once the lifecycle has
\* removed the entry the metadata record was written or cleanup has run.
C3_BothOnlyAfterFinalize ==
    \A j \in JobIds :
        /\ (Registered(j) /\ HasMeta(j)) => pc[j] \in {"l373", "l374"} \cup InFinally
        /\ pc[j] \notin ({"l373", "l374", "done"} \cup InFinally) => ~HasMeta(j)
        /\ pc[j] = "done" =>
              /\ ~Registered(j)
              /\ hist[j].metaWrites + hist[j].cleanups >= 1

C3_Witness ==
    \E j \in JobIds : Registered(j) /\ HasMeta(j) /\ pc[j] = "l390"

\* C4: a cancel request applied while the job's process is running: no metadata
\* record is ever written, the status is cancelled when cleanup is decided and
\* until the entry is removed, and after cleanup no file of the id remains.
C4_CancelBeforeExit ==
    \A j \in JobIds :
        hist[j].cancelAt = "running" =>
            /\ hist[j].metaWrites = 0
            /\ pc[j] \in (InFinally \ {"l383"}) => Status(j) = "cancelled"
            /\ (pc[j] \in {"l389", "l390", "done"} /\ hist[j].cleanups >= 1)
                  => Mine(files, j) = {}

\* C5: a job whose process exits with code 0 gets exactly one metadata record,
\* which is there once the registry entry has been removed.
C5_ExitZeroOneRecord ==
    \A j \in JobIds :
        (proc[j] = "exit0" /\ hist[j].raised = 0) =>
            /\ hist[j].metaWrites <= 1
            /\ pc[j] = "done" => (hist[j].metaWrites = 1 /\ HasMeta(j))

\* C6: every cancel request is accepted without error; one applied to a record
\* that is already cancelled, or to a process already killed, changes nothing;
\* so does one for an id that is not in the registry.
C6_CancelIdempotent ==
    [][\A h \in Handlers :
          /\ cpc'[h] # "failed"
          /\ CancelWrite(h) => Status(cid[h])' = "cancelled"
          /\ (CancelWrite(h) /\ Status(cid[h]) = "cancelled") => registry' = registry
          /\ (CancelKill(h) /\ proc[cid[h]] # "running") => proc' = proc
          /\ (CancelCheck(h) /\ ~Registered(cid[h])) => registry' = registry]_vars

\* C7: a job that no cancel request has reached and whose process could not be
\* started, or exited with a nonzero code, ends with status error, gets no
\* metadata record, has cleanup run before its entry is removed, and is spawned
\* at most once.
SpawnFailed(j) == proc[j] = "unspawned" /\ pc[j] \notin {"idle", "l237", "l289"}
C7_FailureEndsInError ==
    \A j \in JobIds :
        (hist[j].cancelAt = "never" /\ (SpawnFailed(j) \/ proc[j] = "exit1")) =>
            /\ hist[j].metaWrites = 0
            /\ hist[j].spawns <= 1
            /\ pc[j] \in InFinally => Status(j) = "error"
            /\ pc[j] \in {"l389", "l390", "done"} => hist[j].cleanups = 1

C7_Witness ==
    \E j \in JobIds :
        /\ hist[j].cancelAt = "never" /\ proc[j] = "exit1" /\ pc[j] = "done"
        /\ hist[j].cleanups = 1 /\ hist[j].spawns = 1

\* C8: whenever a submit request has been answered and the job's entry has not
\* yet been removed, the registry holds the job's record, and a status
\* snapshot taken then includes the job.
C8_RegisteredWhenAnswered ==
    /\ \A j \in answered : pc[j] # "done" => Registered(j)
    /\ \A j \in snapLive : j \in DOMAIN snap

\* A record in which every update is either wholly applied or not at all: the
\* four fields of a standard progress line, the fields of an ffmpeg progress
\* line, and status finished with percent 100%.
Consistent(rec) ==
    /\ rec.percent.src = "std" =>
          (rec.size = rec.percent /\ rec.speed = rec.percent /\ rec.eta = rec.percent)
    /\ rec.size.src = "std" => (rec.speed = rec.size /\ rec.eta = rec.size)
    /\ rec.percent.src = "num" => rec.size.src = "ff"
    /\ rec.size.src = "ff" => (rec.speed = rec.size /\ rec.eta = Val("ff", 0))
    /\ rec.status = "finished" => rec.percent = Val("full", 0)

\* C9: a status snapshot never shows a partly applied update.
C9_SnapshotConsistent ==
    \A j \in DOMAIN snap : Consistent(snap[j])

\* C10: after a cancel request has been applied to a record whose status was
\* downloading, eventually the process is killed or has exited, cleanup has
\* run and the registry entry has been removed.
C10_CancelTakesEffect ==
    \A j \in JobIds :
        (hist[j].cancelOn = "downloading")
            ~> (pc[j] = "done" /\ hist[j].cleanups >= 1 /\ proc[j] # "running")

\* C11: a registry entry is removed only by its own lifecycle at line 390, after
\* the grace delay, and never while its status is downloading; a status
\* snapshot taken during the grace delay returns the record with the terminal
\* status the job ended with: finished when the metadata record was written
\* and no cleanup ran, cancelled or error when cleanup ran.
C11_RemovedAfterGrace ==
    [][\A j \in JobIds :
          /\ (Registered(j) /\ ~Registered(j)') =>
                /\ Remove(j)
                /\ Status(j) \in Terminal
          /\ (pc[j] \in {"l389", "l390"} /\ j \in DOMAIN snap') =>
                /\ snap'[j].status \in Terminal
                /\ hist[j].cleanups = 0 => snap'[j].status = "finished"
                /\ hist[j].cleanups >= 1 => snap'[j].status \in {"cancelled", "error"}]_vars

\* positions after the percent of an ffmpeg progress line was written, the
\* line still at hand
AfterFfPercent == {"l336", "l337", "l338"}

\* C12: with a positive expected duration, the percentage written for a
\* merge-progress line is numeric, at most 100, not below the percentage of any
\* line with a smaller or equal elapsed time and not above that of any line
\* with a larger or equal one; duration 60 and elapsed 30 give 50.0%.
C12_PercentMonotone ==
    \A j \in JobIds :
        (pc[j] \in AfterFfPercent /\ total[j] > 0) =>
            LET p == registry[j].percent
                e == parse_time_str(line[j].t)
            IN  /\ p.src = "num"
                /\ p.n >= 0 /\ p.n <= 1000
                /\ \A t \in RangeElapsed :
                      /\ parse_time_str(t) <= e => FfPercentValue(total[j], t).n <= p.n
                      /\ parse_time_str(t) >= e => FfPercentValue(total[j], t).n >= p.n
                /\ (total[j] = 60 /\ e = 30) => p.n = 500

\* a line of elapsed 30 s for a range of 60 s is at 50.0%, and some line past
\* the end of its range is at 100.0%
C12_Witness ==
    \E j \in JobIds :
        /\ pc[j] \in AfterFfPercent /\ total[j] = 60
        /\ parse_time_str(line[j].t) = 30
        /\ registry[j].percent = Val("num", 500)

\* C13: with expected duration 0, as for no range and for an open-ended range,
\* every frame= line sets percent to "indeterminate", whatever its elapsed time.
C13_ZeroIsIndeterminate ==
    [][\A j \in JobIds :
          /\ Register(j) =>
                ((data[j].end_time \in {Absent, Inf}) => total'[j] = 0)
          /\ ((FfPercent(j) \/ FfBadPercent(j)) /\ total[j] = 0) =>
                registry'[j].percent = Val("ind", 0)]_vars

\* an open-ended range, and a line with a nonzero elapsed time handled
C13_Witness ==
    \E j \in JobIds :
        /\ pc[j] \in AfterFfPercent
        /\ data[j].start_time = <<0, 1, 0>> /\ data[j].end_time = Absent
        /\ total[j] = 0
        /\ parse_time_str(line[j].t) > 0
        /\ registry[j].percent = Val("ind", 0)

\* C15: the expected duration computed at submission is never negative: for a
\* range with both ends it is parse(end) - parse(start), or 0 when that is
\* negative; it is 0 with no range and with an open-ended range.
C15_DurationNotNegative ==
    \A j \in JobIds :
        pc[j] \notin {"idle", "l237"} =>
            LET s == data[j].start_time
                e == data[j].end_time
                d == parse_time_str(e) - parse_time_str(s)
            IN  /\ total[j] >= 0
                /\ (s # Absent /\ e \notin {Absent, Inf}) =>
                      total[j] = IF d >= 0 THEN d ELSE 0
                /\ e \in {Absent, Inf} => total[j] = 0

MediaLeft(j) == {f \in Mine(files, j) : f[2] \notin {"jpg", "json"}}
DeleteEnded == {"d200", "d500"}

\* C14: delete_clip makes at most 20 removal attempts; when all of them fail
\* because the media file is locked it reports failure and the metadata
\* record, the media file and the thumbnail are still there; the metadata
\* record is never removed while the media file remains; and every delete
\* request is answered.
C14_DeleteState ==
    /\ dtry <= Attempts
    /\ dtry = Attempts =>
          /\ dpc \in {"d421", "d500"}
          /\ HasMeta(did)
          /\ MediaOf(did) \in files
          /\ meta[did].thumbnail => <<did, "jpg">> \in files
    /\ (dpc # "idle" /\ MediaLeft(did) # {}) => HasMeta(did)
    /\ dpc = "d200" => (MediaLeft(did) = {} /\ ~HasMeta(did))
C14_BoundedDelete ==
    /\ []C14_DeleteState
    /\ (dpc = "d404") ~> (dpc \in DeleteEnded)

\* the media file was locked at each of the 20 attempts: failure is reported
\* and the clip is whole
C14_Witness ==
    /\ dpc = "d500" /\ dtry = Attempts
    /\ HasMeta(did) /\ MediaOf(did) \in files /\ <<did, "jpg">> \in files

\* C16: when the lifecycle takes from the pipe a line that is neither a
\* standard progress line nor a frame= line, the registry is left as it was
\* and the lifecycle goes back to the head of its loop: the job does not leave
\* the loop and no status error follows.
C16_UnrecognisedIgnored ==
    [][\A j \in JobIds :
          (pc[j] = "l305" /\ pipe[j].kind = "other" /\ pipe'[j] = NoLine) =>
              /\ registry' = registry
              /\ pc'[j] = "l301"]_vars

\* The steps taken for job a: those of its lifecycle thread, each of which
\* moves the thread on, and those of a cancel handler thread whose request
\* names a
StepOf(a) ==
    \/ pc'[a] # pc[a]
    \/ \E h \in Handlers : cpc'[h] # cpc[h] /\ cid'[h] = a

\* What belongs to job b is as it was
Untouched(b) ==
    /\ Registered(b) <=> Registered(b)'
    /\ Registered(b) => registry'[b] = registry[b]
    /\ b \in handles <=> b \in handles'
    /\ proc'[b] = proc[b]
    /\ Mine(files', b) = Mine(files, b)
    /\ meta'[b] = meta[b]

\* C17: no step taken for a job changes the registry record, the process
\* handle, the process or the files of another job.
C17_Isolated ==
    [][\A a \in JobIds : \A b \in JobIds \ {a} : StepOf(a) => Untouched(b)]_vars

\* a job was cancelled and cleaned up, and its entry removed, while another
\* job is registered with its handle stored and a file on disk
C17_Witness ==
    \E a \in JobIds : \E b \in JobIds \ {a} :
        /\ hist[a].cancelAt # "never" /\ hist[a].cleanups = 1 /\ pc[a] = "done"
        /\ Registered(b) /\ b \in handles /\ Mine(files, b) # {}

\* C18: every job whose lifecycle thread has started ends: a terminal status
\* has been written, the process handle is out of the handle map, the
\* metadata record has been written or cleanup has run, and the registry entry
\* is removed; and it stays so.
Ended(j) ==
    /\ pc[j] = "done"
    /\ ~Registered(j)
    /\ j \notin handles
    /\ hist[j].metaWrites + hist[j].cleanups >= 1
C18_EveryJobEnds ==
    /\ \A j \in JobIds : (pc[j] # "idle") ~> []Ended(j)
    /\ [][\A j \in JobIds : Remove(j) => Status(j) \in Terminal]_vars

\* a job that was cancelled while its process ran has ended, its process killed
C18_Witness ==
    \E j \in JobIds :
        Ended(j) /\ proc[j] = "killed" /\ hist[j].cancelAt = "running"

\* C19: every id in the process-handle map is in the registry, so a cancel
\* handler that finds a handle at line 164 finds it for a registered id.
C19_HandleImpliesEntry ==
    /\ \A j \in handles : Registered(j)
    /\ \A h \in Handlers :
          (cpc[h] = "c164" /\ cid[h] \in handles) => Registered(cid[h])

\* a cancel handler is about to find the handle of a registered job
C19_Witness ==
    \E h \in Handlers :
        cpc[h] = "c164" /\ cid[h] \in handles /\ Registered(cid[h])

\* C20: whenever a job's cleanup starts or has run, and once its registry
\* entry has been removed, the job's process is not running: it has exited or
\* has been killed, or was never started.
C20_NoOrphanProcess ==
    \A j \in JobIds :
        (pc[j] = "l385" \/ hist[j].cleanups >= 1 \/ pc[j] = "done") =>
            proc[j] # "running"

====
